---- MODULE Spec2Model ----
(***************************************************************************)
(* Model of app.py: a Flask form handler that appends each submitted       *)
(* report to reports.xlsx (pandas read-all / concat / rewrite-all), sends  *)
(* it to a Telegram chat (text, then the optional attachment) and flashes  *)
(* a status message; and the /reports view of the spreadsheet.             *)
(*                                                                         *)
(* Strings are modelled by a small alphabet of cell values; a file name is *)
(* the tuple of its dot-separated components; a message is the tuple of    *)
(* its lines ("\n".join is left implicit).                                 *)
(***************************************************************************)
EXTENDS Integers, Sequences, FiniteSets, TLC

(***************************************************************************)
(* Bounds of the model.                                                    *)
(***************************************************************************)
\* rows the spreadsheet may hold before submissions stop arriving
MaxRows == 2
\* the same, while two handlers run in overlapping windows
MaxRaceRows == 1
\* populated fields of a report given to the message formatter
MaxFilled == 3

(***************************************************************************)
(* The form's fields, in the order of the `fields` list of index().         *)
(***************************************************************************)
Fields ==
  << "date", "shift", "name", "total_glasses", "total_money",
     "aba_usd", "aba_khr", "acleda_usd", "acleda_khr", "other_bank",
     "cash_usd", "cash_khr", "expense", "balance_status", "balance_amount",
     "Time" >>

FieldSet == { Fields[i] : i \in 1..Len(Fields) }

\* pandas' missing value (NaN / pd.NA): not a string of the form
NA == "<NA>"

\* the strings pandas.read_excel reads as missing by default
\* (keep_default_na=True; the default list also holds "N/A", "null", ...)
NaStrings == { "", "NA" }

\* str.strip() on the model's strings
strip(v) ==
  CASE v = " "   -> ""
    [] v = " x " -> "x"
    [] OTHER     -> v

\* the report whose fields are "" except those of the function g
Report(g) == [ f \in FieldSet |-> IF f \in DOMAIN g THEN g[f] ELSE "" ]

(***************************************************************************)
(* Ledger store: reports.xlsx.                                             *)
(***************************************************************************)
\* DataFrame.to_excel: a missing value and "" are both written as an empty
\* cell; every other string is written as it is
to_excel(df) ==
  [ i \in 1..Len(df) |-> [ f \in FieldSet |-> IF df[i][f] = NA THEN "" ELSE df[i][f] ] ]

\* pandas.read_excel with default arguments: an empty cell and every cell
\* holding one of the default NA strings is read as missing
read_excel(rows) ==
  [ i \in 1..Len(rows) |->
      [ f \in FieldSet |-> IF rows[i][f] \in NaStrings THEN NA ELSE rows[i][f] ] ]

\* pd.concat([df_existing, df_new], ignore_index=True)
concat(df_existing, df_new) == df_existing \o df_new

\* the frame save_to_excel writes, given the file it found
df_all(file, data) ==
  IF file.exists
    THEN concat(read_excel(file.rows), << data >>)
    ELSE << data >>

\* the file after save_to_excel(data) has run on its own
save_to_excel(file, data) ==
  [ exists |-> TRUE, rows |-> to_excel(df_all(file, data)) ]

\* the cell after applymap(strip) and replace(r"^\s*$", pd.NA, regex=True)
CleanCell(v) == IF v = NA THEN NA ELSE IF strip(v) = "" THEN NA ELSE strip(v)

\* keep_cols: the columns with at least one value, in the file's order
KeepCols(df) ==
  SelectSeq(Fields, LAMBDA f : \E i \in 1..Len(df) : CleanCell(df[i][f]) # NA)

\* load_reports_df followed by reports(): the columns and the rows rendered
load_reports_df(file) ==
  IF ~file.exists
    THEN [ columns |-> << >>, rows |-> << >> ]
    ELSE LET df   == read_excel(file.rows)
             keep == KeepCols(df)
             cols == { keep[j] : j \in 1..Len(keep) }
         IN  [ columns |-> keep,
               rows |-> [ i \in 1..Len(df) |->
                           [ f \in cols |->
                               IF CleanCell(df[i][f]) = NA THEN "" ELSE CleanCell(df[i][f]) ] ] ]

(***************************************************************************)
(* Message formatter.  A line is [label, text]: the header, a blank        *)
(* separator, or a labelled field line carrying its trimmed value(s).      *)
(***************************************************************************)
HeaderLine == [ label |-> "header", text |-> << >> ]

BlankLine == [ label |-> "", text |-> << >> ]

\* clean(v) of build_tg_message: (v or "").strip()
clean(v) == strip(v)

\* the lines of one run of `if clean(data.get(f)): lines.append(...)`
RECURSIVE FieldLines(_, _)
FieldLines(data, fs) ==
  IF fs = << >>
    THEN << >>
    ELSE (IF clean(data[Head(fs)]) # ""
            THEN << [ label |-> Head(fs), text |-> << clean(data[Head(fs)]) >> ] >>
            ELSE << >>)
         \o FieldLines(data, Tail(fs))

BasicFields == << "date", "Time", "shift", "name" >>

SalesFields == << "total_glasses", "total_money" >>

BankFields == << "aba_usd", "aba_khr", "acleda_usd", "acleda_khr", "other_bank" >>

MoneyFields == << "cash_usd", "cash_khr", "expense" >>

\* the section added without its blank line
SectionUnseparated(section_lines) == section_lines

\* a section collected first and added after a blank line when not empty
Section(section_lines) ==
  IF section_lines # << >> THEN << BlankLine >> \o section_lines ELSE << >>

\* the balance line: "status / amount", status alone, amount alone, or none
BalanceLines(data) ==
  LET bal_status == clean(data["balance_status"])
      bal_amount == clean(data["balance_amount"])
  IN  IF bal_status # "" \/ bal_amount # ""
        THEN IF bal_status # "" /\ bal_amount # ""
               THEN << [ label |-> "balance", text |-> << bal_status, "/", bal_amount >> ] >>
               ELSE IF bal_status # ""
                      THEN << [ label |-> "balance", text |-> << bal_status >> ] >>
                      ELSE << [ label |-> "balance", text |-> << bal_amount >> ] >>
        ELSE << >>

build_tg_message(data) ==
  << HeaderLine >>
    \o FieldLines(data, BasicFields)
    \o FieldLines(data, SalesFields)
    \o Section(FieldLines(data, BankFields))
    \o Section(FieldLines(data, MoneyFields))
    \o BalanceLines(data)

(***************************************************************************)
(* File names.  A name is the tuple of its components between dots:        *)
(* "report.PDF" is <<"report", "PDF">>, "report" is <<"report">>, ".png"   *)
(* is <<"", "png">>; no file (or an empty name) is << >>.                  *)
(***************************************************************************)
ALLOWED_EXTENSIONS ==
  { "jpg", "jpeg", "png", "pdf", "doc", "docx", "xls", "xlsx", "txt", "zip" }

IMAGE_EXTENSIONS == { "jpg", "jpeg", "png" }

\* str.lower() on the model's extensions
lower(s) ==
  CASE s = "PDF" -> "pdf"
    [] s = "PNG" -> "png"
    [] OTHER     -> s

\* werkzeug's secure_filename on the model's names: leading and trailing
\* dots are stripped
RECURSIVE secure_filename(_)
secure_filename(name) ==
  IF name = << >>
    THEN << >>
    ELSE IF Head(name) = ""
           THEN secure_filename(Tail(name))
           ELSE IF name[Len(name)] = ""
                  THEN secure_filename(SubSeq(name, 1, Len(name) - 1))
                  ELSE name

\* "." in filename and filename.rsplit(".", 1)[1].lower() in ALLOWED_EXTENSIONS
allowed_file(filename) ==
  Len(filename) > 1 /\ lower(filename[Len(filename)]) \in ALLOWED_EXTENSIONS

get_ext(filename) ==
  IF Len(filename) > 1 THEN lower(filename[Len(filename)]) ELSE ""

(***************************************************************************)
(* State.                                                                  *)
(***************************************************************************)
VARIABLES
  BOT_TOKEN,        \* configuration, read once at start-up
  CHAT_ID,
  excel,            \* reports.xlsx: [exists, rows]
  view,             \* what /reports rendered last: [columns, rows]
  form,             \* the report given to the message formatter
  message,          \* the message built from it
  pc,               \* per handler: where index() stands
  data,             \* per handler: the submitted fields
  uploaded,         \* per handler: the uploaded file's name as sent
  base,             \* per handler: the file as save_to_excel found it
  staged,           \* per handler: df_all, read and concatenated, not yet written
  saved,            \* per handler: "" (not run), "ok" or "raised"
  attachment_path,  \* per handler: "" (None) or the temporary path
  attachment_ext,
  tmp_file,         \* per handler: "none", "exists" or "deleted"
  remove_tried,     \* per handler: os.remove was called on the temporary path
  send_res,         \* per handler: result of tg_send_message
  attach_res,       \* per handler: result of tg_send_photo / tg_send_document
  calls,            \* per handler: the send operations called, in order
  requests,         \* per handler: the HTTP requests issued, in order
  opened,           \* per handler: number of open() calls on the attachment
  flashes           \* per handler: the status messages flashed, in order

vars ==
  << BOT_TOKEN, CHAT_ID, excel, view, form, message, pc, data, uploaded, base,
     staged, saved, attachment_path, attachment_ext, tmp_file, remove_tried,
     send_res, attach_res, calls, requests, opened, flashes >>

cfgVars == << BOT_TOKEN, CHAT_ID >>

msgVars == << form, message >>

handlerVars ==
  << pc, data, uploaded, base, staged, saved, attachment_path,
     attachment_ext, tmp_file, remove_tried, send_res, attach_res, calls,
     requests, opened, flashes >>

Handlers == { 1, 2 }

\* a send result that has not been produced (None)
None == [ none |-> TRUE, ok |-> FALSE, error |-> "" ]

Result(ok, error) == [ none |-> FALSE, ok |-> ok, error |-> error ]

NoFile == [ exists |-> FALSE, rows |-> << >> ]

NoView == [ columns |-> << >>, rows |-> << >> ]

(***************************************************************************)
(* Messaging client.  What the network and the Telegram service do with a  *)
(* request is the environment's choice:                                    *)
(*   ack            the JSON answer has ok true                            *)
(*   nack, desc     ok false or absent, with description desc ("-": none)  *)
(*   raise, msg     requests.post / resp.json() raises, str(e) = msg       *)
(*   openfail, msg  open(file_path) raises (file sends only)               *)
(***************************************************************************)
TextOutcomes ==
  { [ kind |-> "ack", text |-> "" ] }
    \cup { [ kind |-> "nack", text |-> d ] : d \in { "-", "chat not found" } }
    \cup { [ kind |-> "raise", text |-> m ] : m \in { "", "timeout" } }

FileOutcomes ==
  TextOutcomes \cup { [ kind |-> "openfail", text |-> "no such file" ] }

\* the guard with the chat id left out
NotConfiguredTokenOnly == BOT_TOKEN = ""

\* `if not BOT_TOKEN or not CHAT_ID`
NotConfigured == BOT_TOKEN = "" \/ CHAT_ID = ""

ConfigError == Result(FALSE, "BOT_TOKEN or CHAT_ID not set")

\* the result of a configured send whose request met outcome o
Answer(o) ==
  CASE o.kind = "ack"  -> Result(TRUE, "")
    [] o.kind = "nack" -> Result(FALSE, IF o.text = "-" THEN "Telegram error" ELSE o.text)
    [] OTHER           -> Result(FALSE, o.text)

\* each operation: [res, requests, opened]
tg_send_message(o) ==
  IF NotConfigured
    THEN [ res |-> ConfigError, requests |-> << >>, opened |-> 0 ]
    ELSE [ res |-> Answer(o), requests |-> << "sendMessage" >>, opened |-> 0 ]

tg_send_file(method, o) ==
  IF NotConfigured
    THEN [ res |-> ConfigError, requests |-> << >>, opened |-> 0 ]
    ELSE IF o.kind = "openfail"
           THEN [ res |-> Answer(o), requests |-> << >>, opened |-> 1 ]
           ELSE [ res |-> Answer(o), requests |-> << method >>, opened |-> 1 ]

tg_send_document(o) == tg_send_file("sendDocument", o)

tg_send_photo(o) == tg_send_file("sendPhoto", o)

(***************************************************************************)
(* Inputs.                                                                 *)
(***************************************************************************)
\* the scenario report: name and glasses, nothing else
Srey == Report("name" :> "x" @@ "total_glasses" :> "x")

\* a report whose expense field reads "NA"
NoExpense == Report("name" :> " x " @@ "expense" :> "NA")

\* a report with nothing but white space
Blank == Report("date" :> " ")

SubmittedForms == { Srey, NoExpense, Blank }

\* no file, photo.PNG, report.pdf, run.exe, report, .png
Uploads ==
  { << >>, << "photo", "PNG" >>, << "report", "pdf" >>, << "run", "exe" >>,
    << "report" >>, << "", "png" >> }

\* the categories and kinds of flash() calls in index()
ExcelWarning == [ category |-> "error", kind |-> "excel", detail |-> "" ]

FileTypeError == [ category |-> "error", kind |-> "file_type", detail |-> "" ]

SuccessFlash == [ category |-> "success", kind |-> "sent_and_saved", detail |-> "" ]

FailedFlash(err) == [ category |-> "error", kind |-> "send_failed", detail |-> err ]

(***************************************************************************)
(* index(), POST: one action per blocking step.                            *)
(***************************************************************************)
\* request.method == "POST": the fields are read from the form
Submit(p, f, u) ==
  /\ pc[p] \in { "idle", "done", "crashed" }
  /\ pc' = [pc EXCEPT ![p] = "save"]
  /\ data' = [data EXCEPT ![p] = f]
  /\ uploaded' = [uploaded EXCEPT ![p] = u]
  /\ base' = [base EXCEPT ![p] = NoFile]
  /\ staged' = [staged EXCEPT ![p] = << >>]
  /\ saved' = [saved EXCEPT ![p] = ""]
  /\ attachment_path' = [attachment_path EXCEPT ![p] = ""]
  /\ attachment_ext' = [attachment_ext EXCEPT ![p] = ""]
  /\ tmp_file' = [tmp_file EXCEPT ![p] = "none"]
  /\ remove_tried' = [remove_tried EXCEPT ![p] = FALSE]
  /\ send_res' = [send_res EXCEPT ![p] = None]
  /\ attach_res' = [attach_res EXCEPT ![p] = None]
  /\ calls' = [calls EXCEPT ![p] = << >>]
  /\ requests' = [requests EXCEPT ![p] = << >>]
  /\ opened' = [opened EXCEPT ![p] = 0]
  /\ flashes' = [flashes EXCEPT ![p] = << >>]
  /\ UNCHANGED << cfgVars, msgVars, excel, view >>

\* save_to_excel, first half: EXCEL_FILE.exists(), read_excel, concat;
\* an exception is caught by index() and flashed as a warning
SaveRead(p) ==
  /\ pc[p] = "save"
  /\ \/ /\ base' = [base EXCEPT ![p] = excel]
        /\ staged' = [staged EXCEPT ![p] = df_all(excel, data[p])]
        /\ pc' = [pc EXCEPT ![p] = "write"]
        /\ UNCHANGED << saved, flashes >>
     \/ /\ excel.exists
        /\ saved' = [saved EXCEPT ![p] = "raised"]
        /\ flashes' = [flashes EXCEPT ![p] = Append(@, ExcelWarning)]
        /\ pc' = [pc EXCEPT ![p] = "attach"]
        /\ UNCHANGED << base, staged >>
  /\ UNCHANGED << cfgVars, msgVars, excel, view, data, uploaded, attachment_path,
                  attachment_ext, tmp_file, remove_tried, send_res, attach_res,
                  calls, requests, opened >>

\* the frame an append under a lock would write: the file is read again
WrittenFrameLocked(p) == df_all(excel, data[p])

\* the frame the second half writes
WrittenFrame(p) == staged[p]

\* save_to_excel, second half: df_all.to_excel rewrites the whole file
SaveWrite(p) ==
  /\ pc[p] = "write"
  /\ \/ /\ excel' = [ exists |-> TRUE, rows |-> to_excel(WrittenFrame(p)) ]
        /\ saved' = [saved EXCEPT ![p] = "ok"]
        /\ UNCHANGED flashes
     \/ /\ saved' = [saved EXCEPT ![p] = "raised"]
        /\ flashes' = [flashes EXCEPT ![p] = Append(@, ExcelWarning)]
        /\ UNCHANGED excel
  /\ staged' = [staged EXCEPT ![p] = << >>]
  /\ pc' = [pc EXCEPT ![p] = "attach"]
  /\ UNCHANGED << cfgVars, msgVars, view, data, uploaded, base,
                  attachment_path, attachment_ext, tmp_file, remove_tried,
                  send_res, attach_res, calls, requests, opened >>

\* the attachment block: extension check, mkstemp, uploaded.save
Attachment(p) ==
  /\ pc[p] = "attach"
  /\ LET filename == secure_filename(uploaded[p]) IN
       \/ \* no file was uploaded
          /\ uploaded[p] = << >>
          /\ pc' = [pc EXCEPT ![p] = "notify"]
          /\ UNCHANGED << attachment_path, attachment_ext, tmp_file, flashes >>
       \/ \* not allowed: flash and redirect
          /\ uploaded[p] # << >>
          /\ ~allowed_file(filename)
          /\ flashes' = [flashes EXCEPT ![p] = Append(@, FileTypeError)]
          /\ pc' = [pc EXCEPT ![p] = "done"]
          /\ UNCHANGED << attachment_path, attachment_ext, tmp_file >>
       \/ \* allowed and written to the temporary file
          /\ uploaded[p] # << >>
          /\ allowed_file(filename)
          /\ attachment_ext' = [attachment_ext EXCEPT ![p] = get_ext(filename)]
          /\ attachment_path' = [attachment_path EXCEPT ![p] = "tmp"]
          /\ tmp_file' = [tmp_file EXCEPT ![p] = "exists"]
          /\ pc' = [pc EXCEPT ![p] = "notify"]
          /\ UNCHANGED flashes
       \/ \* allowed, and tempfile.mkstemp raises: nothing catches it
          /\ uploaded[p] # << >>
          /\ allowed_file(filename)
          /\ attachment_ext' = [attachment_ext EXCEPT ![p] = get_ext(filename)]
          /\ pc' = [pc EXCEPT ![p] = "crashed"]
          /\ UNCHANGED << attachment_path, tmp_file, flashes >>
       \/ \* allowed, the file is created and uploaded.save raises
          /\ uploaded[p] # << >>
          /\ allowed_file(filename)
          /\ attachment_ext' = [attachment_ext EXCEPT ![p] = get_ext(filename)]
          /\ tmp_file' = [tmp_file EXCEPT ![p] = "exists"]
          /\ pc' = [pc EXCEPT ![p] = "crashed"]
          /\ UNCHANGED << attachment_path, flashes >>
  /\ UNCHANGED << cfgVars, msgVars, excel, view, data, uploaded, base, staged,
                  saved, remove_tried, send_res, attach_res, calls, requests, opened >>

\* message = build_tg_message(data); send_res = tg_send_message(message)
SendText(p, o) ==
  /\ pc[p] = "notify"
  /\ LET r == tg_send_message(o) IN
       /\ send_res' = [send_res EXCEPT ![p] = r.res]
       /\ requests' = [requests EXCEPT ![p] = @ \o r.requests]
       /\ opened' = [opened EXCEPT ![p] = @ + r.opened]
  /\ calls' = [calls EXCEPT ![p] = Append(@, "tg_send_message")]
  /\ pc' = [pc EXCEPT ![p] = IF attachment_path[p] # "" THEN "sendfile" ELSE "result"]
  /\ UNCHANGED << cfgVars, msgVars, excel, view, data, uploaded, base, staged,
                  saved, attachment_path, attachment_ext, tmp_file, remove_tried,
                  attach_res, flashes >>

\* `if attachment_path:` photo or document, then os.remove in try/except
SendFile(p, o, removed) ==
  /\ pc[p] = "sendfile"
  /\ LET photo == attachment_ext[p] \in IMAGE_EXTENSIONS
         r     == IF photo THEN tg_send_photo(o) ELSE tg_send_document(o)
     IN
       /\ attach_res' = [attach_res EXCEPT ![p] = r.res]
       /\ requests' = [requests EXCEPT ![p] = @ \o r.requests]
       /\ opened' = [opened EXCEPT ![p] = @ + r.opened]
       /\ calls' = [calls EXCEPT ![p] =
                      Append(@, IF photo THEN "tg_send_photo" ELSE "tg_send_document")]
  /\ remove_tried' = [remove_tried EXCEPT ![p] = TRUE]
  /\ tmp_file' = [tmp_file EXCEPT ![p] = IF removed THEN "deleted" ELSE "exists"]
  /\ pc' = [pc EXCEPT ![p] = "result"]
  /\ UNCHANGED << cfgVars, msgVars, excel, view, data, uploaded, base, staged,
                  saved, attachment_path, attachment_ext, send_res, flashes >>

\* ok_any = send_res.get("ok") or (attach_res and attach_res.get("ok"))
ok_any(p) == send_res[p].ok \/ (~attach_res[p].none /\ attach_res[p].ok)

\* err = send_res.get("error") or
\*       (attach_res.get("error") if attach_res else "Unknown error")
err(p) ==
  IF send_res[p].error # ""
    THEN send_res[p].error
    ELSE IF ~attach_res[p].none THEN attach_res[p].error ELSE "Unknown error"

\* the result block: one flash, then redirect
FlashResult(p) ==
  /\ pc[p] = "result"
  /\ flashes' = [flashes EXCEPT ![p] =
                   Append(@, IF ok_any(p) THEN SuccessFlash ELSE FailedFlash(err(p)))]
  /\ pc' = [pc EXCEPT ![p] = "done"]
  /\ UNCHANGED << cfgVars, msgVars, excel, view, data, uploaded, base, staged,
                  saved, attachment_path, attachment_ext, tmp_file, remove_tried,
                  send_res, attach_res, calls, requests, opened >>

\* GET /reports
reports ==
  /\ view' = load_reports_df(excel)
  /\ UNCHANGED << cfgVars, msgVars, excel, handlerVars >>

InitHandlers ==
  /\ pc = [p \in Handlers |-> "idle"]
  /\ data = [p \in Handlers |-> Report(<< >>)]
  /\ uploaded = [p \in Handlers |-> << >>]
  /\ base = [p \in Handlers |-> NoFile]
  /\ staged = [p \in Handlers |-> << >>]
  /\ saved = [p \in Handlers |-> ""]
  /\ attachment_path = [p \in Handlers |-> ""]
  /\ attachment_ext = [p \in Handlers |-> ""]
  /\ tmp_file = [p \in Handlers |-> "none"]
  /\ remove_tried = [p \in Handlers |-> FALSE]
  /\ send_res = [p \in Handlers |-> None]
  /\ attach_res = [p \in Handlers |-> None]
  /\ calls = [p \in Handlers |-> << >>]
  /\ requests = [p \in Handlers |-> << >>]
  /\ opened = [p \in Handlers |-> 0]
  /\ flashes = [p \in Handlers |-> << >>]

InitFiles ==
  /\ excel = NoFile
  /\ view = NoView
  /\ form = Report(<< >>)
  /\ message = << >>

(***************************************************************************)
(* Spec: submissions handled one at a time, with every input and every     *)
(* outcome of the environment.                                             *)
(***************************************************************************)
Init ==
  /\ BOT_TOKEN \in { "", "token" }
  /\ CHAT_ID \in { "", "chat" }
  /\ InitFiles
  /\ InitHandlers

Next ==
  \/ \E f \in SubmittedForms, u \in Uploads :
       Len(excel.rows) < MaxRows /\ Submit(1, f, u)
  \/ SaveRead(1)
  \/ SaveWrite(1)
  \/ Attachment(1)
  \/ \E o \in TextOutcomes : SendText(1, o)
  \/ \E o \in FileOutcomes, removed \in BOOLEAN : SendFile(1, o, removed)
  \/ FlashResult(1)

Spec == Init /\ [][Next]_vars

(***************************************************************************)
(* SpecRace: two submissions handled in overlapping windows (the server is *)
(* threaded and save_to_excel takes no lock).  The notification outcomes   *)
(* are cut down to one success and one failure.                            *)
(***************************************************************************)
RaceForms == { Srey, NoExpense }

RaceUploads == { << >>, << "report", "pdf" >>, << "run", "exe" >> }

RaceOutcomes ==
  { [ kind |-> "ack", text |-> "" ], [ kind |-> "raise", text |-> "timeout" ] }

InitRace ==
  /\ BOT_TOKEN = "token"
  /\ CHAT_ID = "chat"
  /\ InitFiles
  /\ InitHandlers

NextRace ==
  \E p \in Handlers :
    \/ \E f \in RaceForms, u \in RaceUploads :
         Len(excel.rows) < MaxRaceRows /\ Submit(p, f, u)
    \/ SaveRead(p)
    \/ SaveWrite(p)
    \/ Attachment(p)
    \/ \E o \in RaceOutcomes : SendText(p, o)
    \/ \E o \in RaceOutcomes : SendFile(p, o, TRUE)
    \/ FlashResult(p)

SpecRace == InitRace /\ [][NextRace]_vars

(***************************************************************************)
(* SpecLedger: the ledger store on its own.  save_to_excel calls run one   *)
(* after another, each to completion, and /reports is served in between.   *)
(***************************************************************************)
LedgerColumns == { "date", "name", "expense" }

LedgerValues == { " ", "x", " x ", "NA" }

\* reports with at most one populated field, and the scenario report
LedgerForms ==
  { Report(<< >>), Srey }
    \cup { Report(c :> v) : c \in LedgerColumns, v \in LedgerValues }

\* save_to_excel(data), run to completion
AppendReport(f) ==
  /\ Len(excel.rows) < MaxRows
  /\ excel' = save_to_excel(excel, f)
  /\ UNCHANGED << cfgVars, msgVars, view, handlerVars >>

NextLedger ==
  \/ \E f \in LedgerForms : AppendReport(f)
  \/ reports

SpecLedger == InitRace /\ [][NextLedger]_vars

(***************************************************************************)
(* SpecMsg: the message formatter on its own, applied to every report with *)
(* at most MaxFilled populated fields.                                     *)
(***************************************************************************)
MsgValues == { " ", "x", " x " }

\* the sets of at most n fields a report may populate
Populations(n) == { T \in SUBSET FieldSet : Cardinality(T) <= n }

InitMsg ==
  /\ BOT_TOKEN = "token"
  /\ CHAT_ID = "chat"
  /\ excel = NoFile
  /\ view = NoView
  /\ \E S \in Populations(MaxFilled) : \E g \in [S -> MsgValues] : form = Report(g)
  /\ message = << >>
  /\ InitHandlers

\* message = build_tg_message(data)
BuildMessage ==
  /\ message = << >>
  /\ message' = build_tg_message(form)
  /\ UNCHANGED << cfgVars, excel, view, form, handlerVars >>

NextMsg == BuildMessage

SpecMsg == InitMsg /\ [][NextMsg]_vars

(***************************************************************************)
(* Properties.  Helpers first.                                             *)
(***************************************************************************)
InSeq(x, seq) == \E i \in 1..Len(seq) : seq[i] = x

Count(x, seq) == Cardinality({ i \in 1..Len(seq) : seq[i] = x })

\* the handler has finished: it redirected, or an exception left index()
Ended(p) == pc[p] \in { "done", "crashed" }

\* a file came with the submission and its extension is not allowed
Rejected(p) ==
  /\ uploaded[p] # << >>
  /\ LET n == secure_filename(uploaded[p])
     IN  Len(n) < 2 \/ lower(n[Len(n)]) \notin ALLOWED_EXTENSIONS

Accepted(p) == ~Rejected(p)

\* C1: a submission whose file has a disallowed (or no) extension is dropped
\* without a trace: no step of its handling changes the ledger, and no send
\* operation is called for it.
C1_RejectedLeavesNoTrace ==
  [][ Rejected(1)' => (excel' = excel /\ calls'[1] = << >>) ]_vars

\* C4: every accepted submission attempts exactly one text send, whether the
\* ledger append succeeded or raised, and a failed append is flashed as a warning.
C4_AcceptedSendsTextOnce ==
  (Ended(1) /\ Accepted(1))
    => /\ Count("tg_send_message", calls[1]) = 1
       /\ saved[1] = "raised" => InSeq(ExcelWarning, flashes[1])

\* C5: when the handler has finished, every temporary file it created has had
\* its deletion attempted.
C5_TempFileRemoveTried ==
  (Ended(1) /\ tmp_file[1] # "none") => remove_tried[1]

\* a failed send of error e is reported: a failure message carries e (any
\* failure message when e is empty)
SendFailureFlashed(p, e) ==
  \E i \in 1..Len(flashes[p]) :
    /\ flashes[p][i].kind = "send_failed"
    /\ e # "" => flashes[p][i].detail = e

\* C6: every failure met while handling a submission is reported by a flashed
\* status message, and the handler ends in a redirect, never in an exception.
C6_FailuresFlashedNoCrash ==
  Ended(1)
    => /\ pc[1] = "done"
       /\ saved[1] = "raised" => InSeq(ExcelWarning, flashes[1])
       /\ Rejected(1) => InSeq(FileTypeError, flashes[1])
       /\ (~send_res[1].none /\ ~send_res[1].ok)
            => SendFailureFlashed(1, send_res[1].error)
       /\ (~attach_res[1].none /\ ~attach_res[1].ok)
            => SendFailureFlashed(1, attach_res[1].error)

\* the error C10 expects in the failure message: the text send's, else the
\* attachment send's, else the generic one
C10_Error ==
  IF send_res[1].error # ""
    THEN send_res[1].error
    ELSE IF ~attach_res[1].none /\ attach_res[1].error # ""
           THEN attach_res[1].error
           ELSE "Unknown error"

\* C10: for an accepted submission the success message is flashed exactly when
\* the text send or the attachment send returned ok, whatever the append did;
\* otherwise the failure message carries the text send's error, else the
\* attachment send's, else the generic error.
C10_ResultMessage ==
  (Ended(1) /\ Accepted(1))
    => LET ok == send_res[1].ok \/ attach_res[1].ok IN
         /\ InSeq(SuccessFlash, flashes[1]) <=> ok
         /\ ~ok => InSeq(FailedFlash(C10_Error), flashes[1])

\* C7: with the bot credential or the chat id empty, each send operation
\* returns the configuration error, issues no request and opens no file; a
\* transport exception of a configured send comes back as a failure result
\* carrying its text, and the handler goes on to its next step.
C7_SendNeverRaises ==
  [][ \A o \in FileOutcomes, removed \in BOOLEAN :
        /\ (o \in TextOutcomes /\ SendText(1, o))
             => /\ pc'[1] \in { "sendfile", "result" }
                /\ (BOT_TOKEN = "" \/ CHAT_ID = "")
                     => /\ send_res'[1] = Result(FALSE, "BOT_TOKEN or CHAT_ID not set")
                        /\ requests'[1] = requests[1]
                        /\ opened'[1] = opened[1]
                /\ (BOT_TOKEN # "" /\ CHAT_ID # "" /\ o.kind = "raise")
                     => send_res'[1] = Result(FALSE, o.text)
        /\ SendFile(1, o, removed)
             => /\ pc'[1] = "result"
                /\ (BOT_TOKEN = "" \/ CHAT_ID = "")
                     => /\ attach_res'[1] = Result(FALSE, "BOT_TOKEN or CHAT_ID not set")
                        /\ requests'[1] = requests[1]
                        /\ opened'[1] = opened[1]
                /\ (BOT_TOKEN # "" /\ CHAT_ID # "" /\ o.kind \in { "raise", "openfail" })
                     => attach_res'[1] = Result(FALSE, o.text)
    ]_vars

\* C7's case: an unconfigured handler has called the text send and a file
\* send, and both returned the configuration error
C7_Witness ==
  /\ CHAT_ID = ""
  /\ BOT_TOKEN # ""
  /\ Len(calls[1]) = 2
  /\ send_res[1] = ConfigError
  /\ attach_res[1] = ConfigError
  /\ requests[1] = << >>

\* the row of the file a report is stored as
StoredRow(f) == to_excel(<< f >>)[1]

\* both handlers' appends have returned without raising
BothAppended == saved[1] = "ok" /\ saved[2] = "ok"

\* C3: save_to_excel takes no lock, so two handlers can read the same prior
\* file; when both have then appended without error, the file holds that
\* prior state and the row of only one of them: the other update is lost.
C3_LostUpdate ==
  (BothAppended /\ base[1] = base[2])
    => /\ Len(excel.rows) = Len(base[1].rows) + 1
       /\ excel.rows[Len(excel.rows)] \in { StoredRow(data[1]), StoredRow(data[2]) }

\* C3's case: both handlers read the same file, both appended and finished
\* without a warning, and the first handler's row is nowhere in the file
C3_Witness ==
  /\ BothAppended
  /\ base[1] = base[2]
  /\ pc[1] = "done" /\ pc[2] = "done"
  /\ ~InSeq(ExcelWarning, flashes[1]) /\ ~InSeq(ExcelWarning, flashes[2])
  /\ data[1] # data[2]
  /\ ~InSeq(StoredRow(data[1]), excel.rows)
  /\ InSeq(StoredRow(data[2]), excel.rows)

\* the group a field line belongs to: 1 identity/date, 2 sales totals,
\* 3 bank breakdown, 4 cash/expense, 5 balance
GroupOf(label) ==
  CASE label \in { "date", "Time", "shift", "name" }                   -> 1
    [] label \in { "total_glasses", "total_money" }                    -> 2
    [] label \in { "aba_usd", "aba_khr", "acleda_usd", "acleda_khr",
                   "other_bank" }                                      -> 3
    [] label \in { "cash_usd", "cash_khr", "expense" }                 -> 4
    [] OTHER                                                           -> 5

\* the fields whose values the lines of a group show
GroupFields(g) ==
  CASE g = 1 -> { "date", "Time", "shift", "name" }
    [] g = 2 -> { "total_glasses", "total_money" }
    [] g = 3 -> { "aba_usd", "aba_khr", "acleda_usd", "acleda_khr", "other_bank" }
    [] g = 4 -> { "cash_usd", "cash_khr", "expense" }
    [] OTHER -> { "balance_status", "balance_amount" }

\* the group has a field that is not empty and not white space only
Populated(g) == \E f \in GroupFields(g) : form[f] \notin { "", " " }

IsFieldLine(i) == message[i].label \notin { "header", "" }

\* line i is the first line of its group
StartsGroup(i) ==
  /\ IsFieldLine(i)
  /\ \A j \in 1..(i - 1) :
       IsFieldLine(j) => GroupOf(message[j].label) # GroupOf(message[i].label)

\* line i starts the first group that has a line
StartsFirstGroup(i) == StartsGroup(i) /\ \A j \in 1..(i - 1) : ~IsFieldLine(j)

\* what C8 and its amendment share: the header comes first, the groups with
\* a line are the populated ones, every blank line stands alone right before
\* the first line of a group, and nothing but the header is left of a report
\* whose fields are all empty
C8_Common ==
  /\ message[1] = HeaderLine
  /\ \A g \in 1..5 :
       Populated(g) <=> \E i \in 1..Len(message) :
                          IsFieldLine(i) /\ GroupOf(message[i].label) = g
  /\ \A i \in 1..Len(message) :
       message[i] = BlankLine
         => /\ i < Len(message)
            /\ StartsGroup(i + 1)
            /\ message[i - 1] # BlankLine
  /\ (\A g \in 1..5 : ~Populated(g)) => message = << HeaderLine >>

\* C8 as stated: every group with a populated line is preceded by exactly
\* one blank line, except the first such group, which is preceded by none;
\* a group without a line adds no blank line; all fields empty leaves the header.
C8_EveryGroupSeparated ==
  message # << >>
    => /\ C8_Common
       /\ \A i \in 2..Len(message) :
            StartsGroup(i) => (message[i - 1] = BlankLine <=> ~StartsFirstGroup(i))

\* C8 amended: the bank group and the cash/expense group are each preceded by
\* exactly one blank line whenever they have a line, first group or not; the
\* identity/date, sales and balance groups never are; a group without a line
\* adds no blank line; all fields empty leaves the header.
C8_SectionsSeparated ==
  message # << >>
    => /\ C8_Common
       /\ \A i \in 2..Len(message) :
            StartsGroup(i)
              => (message[i - 1] = BlankLine <=> GroupOf(message[i].label) \in { 3, 4 })

\* C8's case: a message built from a report with identity, bank and balance
\* fields populated and no cash field
C8_Witness ==
  /\ message # << >>
  /\ Populated(1) /\ Populated(3) /\ Populated(5)
  /\ ~Populated(4)

\* C2: save_to_excel calls that run one after another only append: each call
\* leaves the stored rows as they were, in their order, and adds the new
\* report as the last row.
C2_AppendOnly ==
  [][ \A f \in LedgerForms :
        AppendReport(f) => excel'.rows = excel.rows \o << StoredRow(f) >> ]_vars

\* the stored columns with a cell that is not empty and not white space
\* only, in the file's order
StoredPopulatedColumns ==
  SelectSeq(Fields,
            LAMBDA c : \E i \in 1..Len(excel.rows) : excel.rows[i][c] \notin { "", " " })

\* C9: /reports shows exactly the stored columns that hold a value that is
\* not empty and not white space only in some row, in their stored order,
\* and as many rows as are stored.
C9_ViewColumns ==
  [][ reports => /\ view'.columns = StoredPopulatedColumns
                 /\ Len(view'.rows) = Len(excel.rows) ]_vars

====
